---- MODULE Spec2Model ----
(***************************************************************************)
(* Model of the video-frames worker: the lease-renewal loop of the bus     *)
(* (src/unnamed/part_002) and the frame pipeline of the sequencer          *)
(* (src/unnamed/part_000), for one received segment message.               *)
(*                                                                         *)
(* Time is counted in seconds.  Every action is one run-to-completion      *)
(* callback of the node event loop; the order of the calls made inside a   *)
(* callback is kept in the variable trace.                                 *)
(***************************************************************************)
EXTENDS Integers, Sequences, FiniteSets, TLC

\* ---- bounds of the model ------------------------------------------------
MaxFrames == 3
MaxFps == 3
MaxBatchSize == 2
MaxMsgTimeout == 3
MaxTime == 3

\* ---- program constants --------------------------------------------------
\* the safety margin of the renewal timer: 1000 ms
Margin == 1

\* inputs
FpsValues == 1..MaxFps
BatchSizes == 1..MaxBatchSize
\* the queue's message timeout, longer than the margin (nsqd's default is 60 s)
MsgTimeouts == 2..MaxMsgTimeout
Statuses == {200, 404}
\* content types, split into the tokens the prefix test distinguishes; every
\* response carries the header
ContentTypes == {<<"video/", "mp4">>, <<"text/", "html">>, <<"application/", "video/">>}
\* the segment jobs: a video id and the URI of the segment, a URI being its
\* directory, the name of its file and the extension of the file
VideoIds == {"v1", "v2"}
Uris == {[dir |-> "a", base |-> "seg0", ext |-> ".mp4"],
         [dir |-> "b", base |-> "seg0", ext |-> ".mp4"],
         [dir |-> "a", base |-> "seg1", ext |-> ".mp4"]}

VARIABLES
  \* the message and its lease (part_002)
  \* timers: the due times of the pending setTimeout(touch, ...) timers
  received, msgTimeout, now, deadline, timers, touches,
  hasResponded, finishes, abandoned,
  \* the sequencer's inputs
  batchSize, videoFps, requiredFps, videoId, videoUri,
  \* downloadFile
  dl, error, status, contentType,
  \* downloadAndExtractToS3
  pc, localVideo, localFrames, frames, idxMultiplier, s3_dir, uploadTasks, batches,
  batchIdx, task, parallelErr, uploaded, results, res, trace,
  \* the bucket: the object stored under each key
  s3objects

leaseVars == <<received, msgTimeout, now, deadline, timers, touches>>
inputVars == <<batchSize, videoFps, requiredFps, videoId, videoUri>>
seqVars == <<hasResponded, finishes, abandoned, dl, error, status, contentType,
             pc, localVideo, localFrames, frames, idxMultiplier, s3_dir, uploadTasks,
             batches, batchIdx, task, parallelErr, uploaded, results, res, trace,
             s3objects>>
vars == <<leaseVars, inputVars, seqVars>>

\* ---- errors and events --------------------------------------------------
\* an error object: its fatal tag, where it was created, the task it is about
Err(fatal, src, idx) == [fatal |-> fatal, src |-> src, idx |-> idx]
NoErr == Err(FALSE, "none", 0 - 1)
IsErr(e) == e.src # "none"

Ev(ev, e) == [ev |-> ev, fatal |-> e.fatal, src |-> e.src, idx |-> e.idx]
Mark(ev) == Ev(ev, NoErr)
MarkIdx(ev, i) == Ev(ev, Err(FALSE, "none", i))

\* ---- the state the sequencer callbacks work on --------------------------
Cur == [hasResponded |-> hasResponded, finishes |-> finishes, abandoned |-> abandoned,
        dl |-> dl, error |-> error, status |-> status, contentType |-> contentType,
        pc |-> pc, localVideo |-> localVideo, localFrames |-> localFrames,
        frames |-> frames, idxMultiplier |-> idxMultiplier, s3Dir |-> s3_dir,
        uploadTasks |-> uploadTasks, batches |-> batches, batchIdx |-> batchIdx,
        task |-> task, parallelErr |-> parallelErr, uploaded |-> uploaded,
        results |-> results, res |-> res, trace |-> trace, s3objects |-> s3objects]

Set(s) ==
  /\ hasResponded' = s.hasResponded
  /\ finishes' = s.finishes
  /\ abandoned' = s.abandoned
  /\ dl' = s.dl
  /\ error' = s.error
  /\ status' = s.status
  /\ contentType' = s.contentType
  /\ pc' = s.pc
  /\ localVideo' = s.localVideo
  /\ localFrames' = s.localFrames
  /\ frames' = s.frames
  /\ idxMultiplier' = s.idxMultiplier
  /\ s3_dir' = s.s3Dir
  /\ uploadTasks' = s.uploadTasks
  /\ batches' = s.batches
  /\ batchIdx' = s.batchIdx
  /\ task' = s.task
  /\ parallelErr' = s.parallelErr
  /\ uploaded' = s.uploaded
  /\ results' = s.results
  /\ res' = s.res
  /\ trace' = s.trace
  /\ s3objects' = s.s3objects

Emit(s, e) == [s EXCEPT !.trace = Append(@, e)]

\* ---- the consumer of the pipeline's outcome ------------------------------
\* msg.finish(): the message has responded
finish(s) == [s EXCEPT !.hasResponded = TRUE, !.finishes = @ + 1]

\* the callback the consumer hands to downloadAndExtractToS3: success and a
\* fatal error acknowledge the message, a transient error takes no action
ConsumerCallback(s, err) ==
  LET s1 == Emit(s, Ev("callback", err))
  IN IF IsErr(err) /\ ~err.fatal
       THEN [s1 EXCEPT !.abandoned = TRUE]
       ELSE finish(s1)

\* ---- sequencer -----------------------------------------------------------
handleError(s, err) == ConsumerCallback(Emit(s, Ev("error", err)), err)

\* delete temp file
cleanupLocalVideo(s) == [Emit(s, Mark("cleanupLocalVideo")) EXCEPT !.localVideo = "released"]

\* remove local files
cleanupLocalFrames(s) == [Emit(s, Mark("cleanupLocalFrames")) EXCEPT !.localFrames = "released"]

\* Round with the quotient truncated
RoundDown(v, r) == v \div r

\* Math.round(videoFps / requiredFps): the nearest integer, halves upwards
Round(v, r) == (2 * v + r) \div (2 * r)

\* the filter's test on the position i of a decoded frame; i % 0 is NaN and
\* NaN !== 0, so that a multiplier of 0 keeps no frame
Keep(i, m) == IF m = 0 THEN FALSE ELSE i % m = 0

\* frames.filter(...): the decoded positions that remain
RECURSIVE Filter(_, _)
Filter(fs, m) ==
  IF fs = <<>> THEN <<>>
  ELSE LET rest == Filter(SubSeq(fs, 1, Len(fs) - 1), m)
           f == fs[Len(fs)]
       IN IF Keep(Len(fs) - 1, m) THEN Append(rest, f) ELSE rest

Min(a, b) == IF a < b THEN a ELSE b

\* uploadTasks.slice(start, end)
Slice(q, start, end) == SubSeq(q, start + 1, end)

\* Batches with one task too many in a group
BatchesOversize(tasks, b) ==
  [i \in 1..((Len(tasks) \div b) + 1) |->
     Slice(tasks, (i - 1) * b, Min(i * b + 1, Len(tasks)))]

\* break tasks into the batches
batchNumber(n, b) == (n \div b) + 1
Batches(tasks, b) ==
  [i \in 1..batchNumber(Len(tasks), b) |->
     Slice(tasks, (i - 1) * b, Min(i * b, Len(tasks)))]

SeqToSet(q) == {q[i] : i \in DOMAIN q}

\* the image file the decoder writes for the frame at decoded position i: its
\* name carries the zero-based index of the frame after an underscore
FrameFile(i) == [dir |-> "frames", name |-> "frame", idx |-> i, ext |-> ".jpg"]

\* parsing frame idx: the digits after the underscore of the file's name
ParseIdx(file) == file.idx

\* path.basename(videoUri, path.extname(videoUri))
Basename(uri) == uri.base

\* S3Dir with a directory of its own for every run, named by its time
S3DirPerRun(vid, uri) == <<vid, ToString(now)>>

\* s3Dir: videoId + '/' + the name of the segment's file without extension
S3Dir(vid, uri) == <<vid, Basename(uri)>>

\* s3FileName of a frame file: idx + path.extname(file)
S3FileName(file) == <<ParseIdx(file), file.ext>>

\* uploadFrameToS3's key: s3Dir + '/' + s3FileName
Key(s3Dir, s3FileName) == s3Dir \o s3FileName

\* the key the upload task of the frame at position i writes
TaskKey(i) == Key(S3Dir(videoId, videoUri), S3FileName(FrameFile(i)))

\* the output bucket
Bucket == "bucket"

\* Builds full object URI.
getObjectUri(s3Bucket, key) == <<"https://", s3Bucket, ".s3.amazonaws.com/">> \o key

\* the results of a completed batch: the frame of each task, in task order
BatchResults(s, b) == [k \in DOMAIN b |-> s.uploaded[b[k]]]

\* the results of all batches, one after the other
RECURSIVE Flatten(_)
Flatten(rs) == IF rs = <<>> THEN <<>> ELSE Flatten(SubSeq(rs, 1, Len(rs) - 1)) \o rs[Len(rs)]

\* ResMap keyed by the place of the frame among the results
ResMapByPlace(rs) ==
  LET fs == Flatten(rs)
  IN [i \in {k - 1 : k \in DOMAIN fs} |-> fs[i + 1].uri]

\* res[f.idx] = f.uri for every frame of every batch, a later one overwriting
ResMap(rs) ==
  LET fs == Flatten(rs)
      last(i) == CHOOSE k \in DOMAIN fs :
                   fs[k].idx = i /\ \A j \in DOMAIN fs : fs[j].idx = i => j <= k
  IN [i \in {fs[k].idx : k \in DOMAIN fs} |-> fs[last(i)].uri]

\* the events of the tasks of a batch being started, in task order
StartEvents(b) == [i \in DOMAIN b |-> MarkIdx("upload", ParseIdx(FrameFile(b[i])))]

\* the final callback of async.series on success
SeriesDone(s) ==
  LET s0 == [s EXCEPT !.res = ResMap(s.results)]
      s1 == cleanupLocalFrames(s0)
      s2 == Emit(s1, Mark("end"))
  IN ConsumerCallback([s2 EXCEPT !.pc = "done"], NoErr)

\* StartBatch with a batch without tasks never calling back
RECURSIVE StartBatchWaits(_, _)
StartBatchWaits(s, k) ==
  IF k > Len(s.batches) THEN SeriesDone(s)
  ELSE LET b == s.batches[k]
       IN [s EXCEPT !.batchIdx = k,
                    !.task = [i \in DOMAIN @ |-> IF i \in SeqToSet(b) THEN "inflight" ELSE @[i]],
                    !.trace = @ \o StartEvents(b)]

\* async.series runs batch k: async.parallel starts every task of the batch;
\* a batch without tasks completes at once with no results
RECURSIVE StartBatch(_, _)
StartBatch(s, k) ==
  IF k > Len(s.batches) THEN SeriesDone(s)
  ELSE LET b == s.batches[k]
       IN IF b = <<>>
            THEN StartBatch([s EXCEPT !.results = Append(@, <<>>), !.batchIdx = k], k + 1)
            ELSE [s EXCEPT !.batchIdx = k,
                           !.task = [i \in DOMAIN @ |-> IF i \in SeqToSet(b) THEN "inflight" ELSE @[i]],
                           !.trace = @ \o StartEvents(b)]

\* the error an upload fails with: the storage client's, passed on as it is
UploadErr(idx) == Err(FALSE, "upload", idx)

\* TaskFailed with the failure swallowed: the task only counts as settled
TaskFailedSwallowed(s, idx) ==
  LET s1 == [s EXCEPT !.task[idx] = "failed"]
      b == s1.batches[s1.batchIdx]
  IN IF \A i \in SeqToSet(b) : s1.task[i] \in {"ok", "failed"}
       THEN StartBatch([s1 EXCEPT !.results = Append(@, <<>>)], s1.batchIdx + 1)
       ELSE s1

\* TaskFailed with every failure propagated, not only the first of the batch
TaskFailedEvery(s, idx) ==
  LET s1 == [s EXCEPT !.task[idx] = "failed"]
  IN handleError([s1 EXCEPT !.parallelErr = TRUE, !.pc = "done"], UploadErr(idx))

\* a task of the running batch fails: async.parallel calls back once, with
\* the first error, and async.series ends with it
TaskFailed(s, idx) ==
  LET s1 == [s EXCEPT !.task[idx] = "failed"]
  IN IF s1.parallelErr THEN s1
     ELSE handleError([s1 EXCEPT !.parallelErr = TRUE, !.pc = "done"], UploadErr(idx))

\* TaskSucceeded with the next batch started by the first task that succeeds
TaskSucceededEager(s, idx) ==
  LET file == FrameFile(idx)
      key == TaskKey(idx)
      frame == [idx |-> ParseIdx(file), uri |-> getObjectUri(Bucket, key)]
      s0 == [s EXCEPT !.s3objects = (key :> file) @@ @]
      s1 == [Emit(s0, MarkIdx("frame", frame.idx)) EXCEPT !.task[idx] = "ok"]
      b == s1.batches[s1.batchIdx]
  IN IF s1.parallelErr THEN s1
     ELSE LET s2 == [s1 EXCEPT !.uploaded = (idx :> frame) @@ @]
          IN IF \E i \in SeqToSet(b) : s2.task[i] = "ok"
               THEN StartBatch([s2 EXCEPT !.results = Append(@, <<>>)], s2.batchIdx + 1)
               ELSE s2

\* TaskSucceeded with no frame event once the batch has failed
TaskSucceededQuiet(s, idx) ==
  LET file == FrameFile(idx)
      key == TaskKey(idx)
      frame == [idx |-> ParseIdx(file), uri |-> getObjectUri(Bucket, key)]
      s0 == [s EXCEPT !.s3objects = (key :> file) @@ @, !.task[idx] = "ok"]
      b == s0.batches[s0.batchIdx]
  IN IF s0.parallelErr THEN s0
     ELSE LET s2 == [Emit(s0, MarkIdx("frame", frame.idx)) EXCEPT !.uploaded = (idx :> frame) @@ @]
          IN IF \A i \in SeqToSet(b) : s2.task[i] = "ok"
               THEN StartBatch([s2 EXCEPT !.results = Append(@, BatchResults(s2, b))],
                               s2.batchIdx + 1)
               ELSE s2

\* TaskSucceeded with a batch complete when batchSize of its tasks are done
TaskSucceededFullBatch(s, idx) ==
  LET file == FrameFile(idx)
      key == TaskKey(idx)
      frame == [idx |-> ParseIdx(file), uri |-> getObjectUri(Bucket, key)]
      s0 == [s EXCEPT !.s3objects = (key :> file) @@ @]
      s1 == [Emit(s0, MarkIdx("frame", frame.idx)) EXCEPT !.task[idx] = "ok"]
      b == s1.batches[s1.batchIdx]
  IN IF s1.parallelErr THEN s1
     ELSE LET s2 == [s1 EXCEPT !.uploaded = (idx :> frame) @@ @]
          IN IF Cardinality({i \in SeqToSet(b) : s2.task[i] = "ok"}) = batchSize
               THEN StartBatch([s2 EXCEPT !.results = Append(@, BatchResults(s2, b))],
                               s2.batchIdx + 1)
               ELSE s2

\* a task of the running batch succeeds: the frame event, then
\* async.parallel counts the task and, with the last one, the next batch runs
TaskSucceeded(s, idx) ==
  LET file == FrameFile(idx)
      key == TaskKey(idx)
      frame == [idx |-> ParseIdx(file), uri |-> getObjectUri(Bucket, key)]
      s0 == [s EXCEPT !.s3objects = (key :> file) @@ @]
      s1 == [Emit(s0, MarkIdx("frame", frame.idx)) EXCEPT !.task[idx] = "ok"]
      b == s1.batches[s1.batchIdx]
  IN IF s1.parallelErr THEN s1
     ELSE LET s2 == [s1 EXCEPT !.uploaded = (idx :> frame) @@ @]
          IN IF \A i \in SeqToSet(b) : s2.task[i] = "ok"
               THEN StartBatch([s2 EXCEPT !.results = Append(@, BatchResults(s2, b))],
                               s2.batchIdx + 1)
               ELSE s2

\* ExtractCallback with the temp file deleted last, after the error has been
\* handled or the uploads have been started
ExtractCallbackCleanupLast(s, err, n) ==
  LET s0 == Emit(s, Ev("decoded", err))
  IN IF IsErr(err) THEN cleanupLocalVideo(handleError([s0 EXCEPT !.pc = "done"], err))
     ELSE LET fs == [i \in 1..n |-> i - 1]
              m == Round(videoFps, requiredFps)
              kept == Filter(fs, m)
              s2 == [s0 EXCEPT !.frames = fs, !.idxMultiplier = m,
                               !.s3Dir = S3Dir(videoId, videoUri),
                               !.uploadTasks = kept,
                               !.batches = Batches(kept, batchSize),
                               !.task = [i \in SeqToSet(kept) |-> "pending"],
                               !.pc = "upload"]
          IN cleanupLocalVideo(StartBatch(s2, 1))

\* the callback of extractFrames: n decoded frames, or err
ExtractCallback(s, err, n) ==
  LET s0 == Emit(s, Ev("decoded", err))
      s1 == cleanupLocalVideo(s0)
  IN IF IsErr(err) THEN handleError([s1 EXCEPT !.pc = "done"], err)
     ELSE LET fs == [i \in 1..n |-> i - 1]
              m == Round(videoFps, requiredFps)
              kept == Filter(fs, m)
              s2 == [s1 EXCEPT !.frames = fs, !.idxMultiplier = m,
                               !.s3Dir = S3Dir(videoId, videoUri),
                               !.uploadTasks = kept,
                               !.batches = Batches(kept, batchSize),
                               !.task = [i \in SeqToSet(kept) |-> "pending"],
                               !.pc = "upload"]
          IN StartBatch(s2, 1)

\* the error a decode failure is reported with: the decoder's, passed on
DecodeErr == Err(FALSE, "decode", 0 - 1)

\* the callback of tmp.dir; extractFrames is called in it, and a throwing
\* decoder constructor calls back before extractFrames returns
TmpDirCallback(s, err, ctorThrows) ==
  IF err THEN handleError([s EXCEPT !.pc = "done"], Err(FALSE, "tmpdir", 0 - 1))
  ELSE LET s1 == [s EXCEPT !.localFrames = "exists", !.pc = "decode"]
       IN IF ctorThrows THEN ExtractCallback(s1, DecodeErr, 0) ELSE s1

\* the callback downloadAndExtractToS3 hands to downloadFile
DownloadCallback(s, err) ==
  IF IsErr(err) THEN handleError([s EXCEPT !.pc = "done"], err)
  ELSE [s EXCEPT !.pc = "tmpdir"]

\* haystack.indexOf(needle) on a tokenised string: the first position, or -1
IndexOf(hay, needle) ==
  IF \E i \in DOMAIN hay : hay[i] = needle
    THEN (CHOOSE i \in DOMAIN hay : hay[i] = needle /\ \A j \in 1..(i - 1) : hay[j] # needle) - 1
    ELSE 0 - 1

\* OnResponse with the content type accepted when it contains 'video/' anywhere
OnResponseContains(s, st, ct) ==
  LET s1 == [s EXCEPT !.dl = "streaming", !.status = st, !.contentType = ct]
  IN IF 200 # st
       THEN DownloadCallback([s1 EXCEPT !.error = TRUE], Err(TRUE, "status", 0 - 1))
       ELSE IF IndexOf(ct, "video/") = 0 - 1
         THEN DownloadCallback([s1 EXCEPT !.error = TRUE], Err(TRUE, "contentType", 0 - 1))
         ELSE s1

\* downloadFile's 'response' handler
OnResponse(s, st, ct) ==
  LET s1 == [s EXCEPT !.dl = "streaming", !.status = st, !.contentType = ct]
  IN IF 200 # st
       THEN DownloadCallback([s1 EXCEPT !.error = TRUE], Err(TRUE, "status", 0 - 1))
       ELSE IF IndexOf(ct, "video/") # 0
         THEN DownloadCallback([s1 EXCEPT !.error = TRUE], Err(TRUE, "contentType", 0 - 1))
         ELSE s1

\* downloadFile's 'error' handler
OnError(s) == DownloadCallback([s EXCEPT !.dl = "failed"], Err(FALSE, "network", 0 - 1))

\* downloadFile's 'finish' handler of the file stream
OnFinish(s, closeErr) ==
  LET s1 == [s EXCEPT !.dl = "closed"]
  IN IF s1.error THEN s1
     ELSE IF closeErr THEN DownloadCallback(s1, Err(FALSE, "close", 0 - 1))
     ELSE DownloadCallback(s1, NoErr)

\* the callback of tmp.file
TmpFileCallback(s, err) ==
  IF err THEN handleError([s EXCEPT !.pc = "done"], Err(FALSE, "tmpfile", 0 - 1))
  ELSE [s EXCEPT !.localVideo = "exists", !.pc = "download", !.dl = "requesting"]

\* ---- the sequencer of lib/sequencer.js -------------------------------------
\* the values uuid.v4() draws the S3 directory of a run from
Uuids == {"u1", "u2"}

\* the image file the decoder writes for the frame at decoded position i when
\* asked for the png format
FrameFileLib(i) == [dir |-> "frames", name |-> "frame", idx |-> i, ext |-> ".png"]

\* uploadFrameToS3's key: s3_dir + '/' + path.basename(frame_path)
KeyLib(dir, file) == dir \o <<file.name, file.idx, file.ext>>

\* uploadFrameToS3 succeeds and uploadTask goes on: the index is parsed, the
\* frame event is emitted, async.parallel counts the task
TaskSucceededLib(s, idx) ==
  LET file == FrameFileLib(idx)
      key == KeyLib(s.s3Dir, file)
      frame == [idx |-> ParseIdx(file), uri |-> getObjectUri(Bucket, key)]
      s0 == [s EXCEPT !.s3objects = (key :> file) @@ @]
      s1 == [Emit(s0, MarkIdx("frame", frame.idx)) EXCEPT !.task[idx] = "ok"]
      b == s1.batches[s1.batchIdx]
  IN IF s1.parallelErr THEN s1
     ELSE LET s2 == [s1 EXCEPT !.uploaded = (idx :> frame) @@ @]
          IN IF \A i \in SeqToSet(b) : s2.task[i] = "ok"
               THEN StartBatch([s2 EXCEPT !.results = Append(@, BatchResults(s2, b))],
                               s2.batchIdx + 1)
               ELSE s2

\* the callback of extractFrames: every decoded frame gets an upload task,
\* under a directory named by a fresh uuid u
ExtractCallbackLib(s, err, n, u) ==
  LET s0 == Emit(s, Ev("decoded", err))
      s1 == cleanupLocalVideo(s0)
  IN IF IsErr(err) THEN handleError([s1 EXCEPT !.pc = "done"], err)
     ELSE LET fs == [i \in 1..n |-> i - 1]
              s2 == [s1 EXCEPT !.frames = fs,
                               !.s3Dir = <<u>>,
                               !.uploadTasks = fs,
                               !.batches = Batches(fs, batchSize),
                               !.task = [i \in SeqToSet(fs) |-> "pending"],
                               !.pc = "upload"]
          IN StartBatch(s2, 1)

\* the callback of tmp.dir
TmpDirCallbackLib(s, err, ctorThrows) ==
  IF err THEN handleError([s EXCEPT !.pc = "done"], Err(FALSE, "tmpdir", 0 - 1))
  ELSE LET s1 == [s EXCEPT !.localFrames = "exists", !.pc = "decode"]
       IN IF ctorThrows THEN ExtractCallbackLib(s1, DecodeErr, 0, "u1") ELSE s1

\* downloadFile's 'finish' handler of the file stream: the file is closed and
\* the callback is called, whatever the 'response' handler has done
OnFinishLib(s, closeErr) ==
  LET s1 == [s EXCEPT !.dl = "closed"]
  IN IF closeErr THEN DownloadCallback(s1, Err(FALSE, "close", 0 - 1))
     ELSE DownloadCallback(s1, NoErr)

\* ---- lease renewal (bus) --------------------------------------------------
\* msg.timeUntilTimeout() for a deadline d
timeUntilTimeout(d) == d - now

\* the time a timer set now with setTimeout(f, delay) is due
TimerDue(delay) == now + (IF delay < 0 THEN 0 ELSE delay)


Init ==
  /\ received = FALSE
  /\ msgTimeout = 0
  /\ now = 0
  /\ deadline = 0
  /\ timers = <<>>
  /\ touches = 0
  /\ hasResponded = FALSE
  /\ finishes = 0
  /\ abandoned = FALSE
  /\ batchSize \in BatchSizes
  /\ videoFps = 1
  /\ requiredFps = 1
  /\ videoId \in VideoIds
  /\ videoUri \in Uris
  /\ dl = "none"
  /\ error = FALSE
  /\ status = 0
  /\ contentType = <<>>
  /\ pc = "idle"
  /\ localVideo = "none"
  /\ localFrames = "none"
  /\ frames = <<>>
  /\ idxMultiplier = 0
  /\ s3_dir = <<>>
  /\ uploadTasks = <<>>
  /\ batches = <<>>
  /\ batchIdx = 0
  /\ task = <<>>
  /\ parallelErr = FALSE
  /\ uploaded = <<>>
  /\ results = <<>>
  /\ res = <<>>
  /\ trace = <<>>
  /\ s3objects = <<>>

\* ---- actions ---------------------------------------------------------------
\* the reader's 'message' handler: the first renewal is scheduled, the
\* 'segment' event starts the pipeline of the consumer
Receive ==
  /\ ~received
  /\ \E t \in MsgTimeouts, v \in FpsValues, r \in FpsValues :
       /\ received' = TRUE
       /\ msgTimeout' = t
       /\ deadline' = now + t
       /\ timers' = Append(timers, TimerDue(timeUntilTimeout(now + t) - Margin))
       /\ videoFps' = v
       /\ requiredFps' = r
       /\ Set([Cur EXCEPT !.pc = "tmpfile"])
  /\ UNCHANGED <<now, touches, batchSize, videoId, videoUri>>

\* the timers left when the k-th one has fired
Fired(k) == SubSeq(timers, 1, k - 1) \o SubSeq(timers, k + 1, Len(timers))

\* touch without the test of hasResponded
touchUnguarded ==
  /\ \E k \in DOMAIN timers :
       /\ timers[k] <= now
       /\ touches' = touches + 1
       /\ deadline' = now + msgTimeout
       /\ timers' = Append(Fired(k), TimerDue(timeUntilTimeout(now + msgTimeout) - Margin))
  /\ UNCHANGED <<received, msgTimeout, now, inputVars, seqVars>>

\* touch with the next renewal set at the deadline, without the margin
touchNoMargin ==
  /\ \E k \in DOMAIN timers :
       /\ timers[k] <= now
       /\ IF ~hasResponded
            THEN /\ touches' = touches + 1
                 /\ deadline' = now + msgTimeout
                 /\ timers' = Append(Fired(k), TimerDue(timeUntilTimeout(now + msgTimeout)))
            ELSE /\ timers' = Fired(k)
                 /\ UNCHANGED <<touches, deadline>>
  /\ UNCHANGED <<received, msgTimeout, now, inputVars, seqVars>>

\* touch with the next renewal set before the test and once more after it
touchTwice ==
  /\ \E k \in DOMAIN timers :
       /\ timers[k] <= now
       /\ IF ~hasResponded
            THEN /\ touches' = touches + 1
                 /\ deadline' = now + msgTimeout
                 /\ timers' = Fired(k) \o <<TimerDue(timeUntilTimeout(deadline) - Margin),
                                            TimerDue(timeUntilTimeout(now + msgTimeout) - Margin)>>
            ELSE /\ timers' = Append(Fired(k), TimerDue(timeUntilTimeout(deadline) - Margin))
                 /\ UNCHANGED <<touches, deadline>>
  /\ UNCHANGED <<received, msgTimeout, now, inputVars, seqVars>>

\* a renewal timer fires: touch()
touch ==
  /\ \E k \in DOMAIN timers :
       /\ timers[k] <= now
       /\ IF ~hasResponded
            THEN /\ touches' = touches + 1
                 /\ deadline' = now + msgTimeout
                 /\ timers' = Append(Fired(k), TimerDue(timeUntilTimeout(now + msgTimeout) - Margin))
            ELSE /\ timers' = Fired(k)
                 /\ UNCHANGED <<touches, deadline>>
  /\ UNCHANGED <<received, msgTimeout, now, inputVars, seqVars>>

\* a second passes; a timer fires when it is due
Tick ==
  /\ received
  /\ now < MaxTime
  /\ \A k \in DOMAIN timers : now < timers[k]
  /\ now' = now + 1
  /\ UNCHANGED <<received, msgTimeout, deadline, timers, touches,
                 inputVars, seqVars>>

TmpFile ==
  /\ pc = "tmpfile"
  /\ \E err \in BOOLEAN : Set(TmpFileCallback(Cur, err))
  /\ UNCHANGED <<leaseVars, inputVars>>

Response ==
  /\ dl = "requesting"
  /\ \E st \in Statuses, ct \in ContentTypes : Set(OnResponse(Cur, st, ct))
  /\ UNCHANGED <<leaseVars, inputVars>>

NetworkError ==
  /\ dl \in {"requesting", "streaming"}
  /\ Set(OnError(Cur))
  /\ UNCHANGED <<leaseVars, inputVars>>

Finish ==
  /\ dl = "streaming"
  /\ \E closeErr \in BOOLEAN : Set(OnFinish(Cur, closeErr))
  /\ UNCHANGED <<leaseVars, inputVars>>

TmpDir ==
  /\ pc = "tmpdir"
  /\ \E err \in BOOLEAN, ctorThrows \in BOOLEAN : Set(TmpDirCallback(Cur, err, ctorThrows))
  /\ UNCHANGED <<leaseVars, inputVars>>

\* the decoder reports: its promise rejects or the extraction fails (err),
\* or n frames were written
Decode ==
  /\ pc = "decode"
  /\ \E err \in BOOLEAN, n \in 0..MaxFrames :
       /\ err => n = 0
       /\ Set(ExtractCallback(Cur, IF err THEN DecodeErr ELSE NoErr, n))
  /\ UNCHANGED <<leaseVars, inputVars>>

\* the storage client calls back for an upload in flight
Upload ==
  /\ \E idx \in DOMAIN task :
       /\ task[idx] = "inflight"
       /\ \E ok \in BOOLEAN :
            Set(IF ok THEN TaskSucceeded(Cur, idx) ELSE TaskFailed(Cur, idx))
  /\ UNCHANGED <<leaseVars, inputVars>>

Next ==
  \/ Receive
  \/ touch
  \/ Tick
  \/ TmpFile
  \/ Response
  \/ NetworkError
  \/ Finish
  \/ TmpDir
  \/ Decode
  \/ Upload

Spec == Init /\ [][Next]_vars

\* every external step eventually calls back: the temp file and the temp
\* directory are created or refused, the request gets a response or fails, an
\* accepted download fails or finishes, the decoder reports, every upload in
\* flight is answered
Fairness ==
  /\ WF_vars(TmpFile)
  /\ WF_vars(Response \/ NetworkError)
  /\ WF_vars(NetworkError \/ Finish)
  /\ WF_vars(TmpDir)
  /\ WF_vars(Decode)
  /\ WF_vars(Upload)

\* the steps of one invocation of downloadAndExtractToS3: no step of it waits
\* for the clock or for the renewal of the lease
LiveNext ==
  \/ Receive
  \/ TmpFile
  \/ Response
  \/ NetworkError
  \/ Finish
  \/ TmpDir
  \/ Decode
  \/ Upload

LiveSpec == Init /\ [][LiveNext]_vars /\ Fairness

\* ---- the actions of lib/sequencer.js ----------------------------------------
\* the 'message' handler with a consumer that runs lib/sequencer.js, which
\* takes the segment's URI and the bucket and no frame rates
ReceiveLib ==
  /\ ~received
  /\ \E t \in MsgTimeouts :
       /\ received' = TRUE
       /\ msgTimeout' = t
       /\ deadline' = now + t
       /\ timers' = Append(timers, TimerDue(timeUntilTimeout(now + t) - Margin))
       /\ Set([Cur EXCEPT !.pc = "tmpfile"])
  /\ UNCHANGED <<now, touches, inputVars>>

FinishLib ==
  /\ dl = "streaming"
  /\ \E closeErr \in BOOLEAN : Set(OnFinishLib(Cur, closeErr))
  /\ UNCHANGED <<leaseVars, inputVars>>

TmpDirLib ==
  /\ pc = "tmpdir"
  /\ \E err \in BOOLEAN, ctorThrows \in BOOLEAN : Set(TmpDirCallbackLib(Cur, err, ctorThrows))
  /\ UNCHANGED <<leaseVars, inputVars>>

DecodeLib ==
  /\ pc = "decode"
  /\ \E err \in BOOLEAN, n \in 0..MaxFrames, u \in Uuids :
       /\ err => n = 0
       /\ Set(ExtractCallbackLib(Cur, IF err THEN DecodeErr ELSE NoErr, n, u))
  /\ UNCHANGED <<leaseVars, inputVars>>

UploadLib ==
  /\ \E idx \in DOMAIN task :
       /\ task[idx] = "inflight"
       /\ \E ok \in BOOLEAN :
            Set(IF ok THEN TaskSucceededLib(Cur, idx) ELSE TaskFailed(Cur, idx))
  /\ UNCHANGED <<leaseVars, inputVars>>

NextLib ==
  \/ ReceiveLib
  \/ touch
  \/ Tick
  \/ TmpFile
  \/ Response
  \/ NetworkError
  \/ FinishLib
  \/ TmpDirLib
  \/ DecodeLib
  \/ UploadLib

SpecLib == Init /\ [][NextLib]_vars

\* the same for one invocation of the sequencer of lib/sequencer.js
FairnessLib ==
  /\ WF_vars(TmpFile)
  /\ WF_vars(Response \/ NetworkError)
  /\ WF_vars(NetworkError \/ FinishLib)
  /\ WF_vars(TmpDirLib)
  /\ WF_vars(DecodeLib)
  /\ WF_vars(UploadLib)

LiveNextLib ==
  \/ ReceiveLib
  \/ TmpFile
  \/ Response
  \/ NetworkError
  \/ FinishLib
  \/ TmpDirLib
  \/ DecodeLib
  \/ UploadLib

LiveSpecLib == Init /\ [][LiveNextLib]_vars /\ FairnessLib

\* ---- claims ------------------------------------------------------------------
Has(ev) == \E k \in DOMAIN trace : trace[k].ev = ev
HasFrom(ev, src) == \E k \in DOMAIN trace : trace[k].ev = ev /\ trace[k].src = src
Settled == Has("callback")

\* C1: after the job is abandoned (the callback got a transient error and the
\* consumer acknowledged nothing), no further touch() is issued for the message.
C1_NoTouchAfterAbandon == [][abandoned => touches' = touches]_vars

\* C2: once finish() has been called on the message, no touch() is issued for
\* it again, whenever the pending renewal timer fires.
C2_NoTouchAfterFinish == [][finishes > 0 => touches' = touches]_vars

\* the message was renewed, then finished, and the pending timer has fired since
C2_Witness == finishes > 0 /\ touches > 0 /\ timers = <<>>

\* C3: while the received message has not responded, a renewal is pending and
\* due strictly before the lease's deadline, the first one and every one set
\* by a renewal, and the lease has not expired.
C3_RenewedBeforeDeadline ==
  (received /\ ~hasResponded) =>
    (timers # <<>> /\ (\A k \in DOMAIN timers : timers[k] < deadline) /\ now < deadline)

\* the job is still in the pipeline and its lease was renewed twice
C3_Witness == received /\ ~hasResponded /\ ~Settled /\ touches >= 2

\* C4: every decode failure is surfaced as an error tagged fatal.
C4_DecodeFailureFatal ==
  \A k \in DOMAIN trace :
    (trace[k].ev \in {"error", "callback"} /\ trace[k].src = "decode") => trace[k].fatal

\* C5: a response with a status other than 200 or a content type that does not
\* begin with 'video/' fails the pipeline with an error tagged fatal (the first
\* outcome the callback gets, and never a success); a network failure fails it
\* with an error that is not tagged fatal.
ResponseRejected == status # 0 /\ (status # 200 \/ contentType[1] # "video/")
FirstCallback == trace[CHOOSE k \in DOMAIN trace :
                   trace[k].ev = "callback" /\ \A j \in 1..(k - 1) : trace[j].ev # "callback"]
C6_NoScratchAfterSettle ==
  Settled => (localVideo # "exists" /\ localFrames # "exists")

\* C7: when an upload fails, the frames directory is released before the
\* 'error' event is emitted and before the callback gets the error.
C7_CleanupBeforeUploadError ==
  \A k \in DOMAIN trace :
    (trace[k].ev \in {"error", "callback"} /\ trace[k].src = "upload") =>
      \E j \in 1..(k - 1) : trace[j].ev = "cleanupLocalFrames"

\* C8: the report of the decoder, a failure or frames, is followed at once by
\* the release of the local video file: before any upload is started and
\* before any error is surfaced.
C8_VideoReleasedAfterDecode ==
  /\ \A k \in DOMAIN trace :
       trace[k].ev = "decoded" =>
         (k < Len(trace) /\ trace[k + 1].ev = "cleanupLocalVideo")
  /\ Has("decoded") => localVideo = "released"

\* frames were decoded and their uploads are in flight
C8_Witness == HasFrom("decoded", "none") /\ \E i \in DOMAIN task : task[i] = "inflight"

\* C9: when an upload task has failed, the operation has failed with the error
\* of a failed task, not tagged fatal; 'end' is not emitted and the callback
\* gets no FrameMap.
C9_UploadFailureFailsAll ==
  (\E i \in DOMAIN task : task[i] = "failed") =>
    /\ \E k \in DOMAIN trace :
         /\ trace[k].ev = "callback" /\ trace[k].src = "upload" /\ ~trace[k].fatal
         /\ task[trace[k].idx] = "failed"
         /\ k > 1 /\ trace[k - 1] = [trace[k] EXCEPT !.ev = "error"]
    /\ ~Has("end")
    /\ ~HasFrom("callback", "none")

\* an upload failed, another one succeeded, and none is in flight any more
C9_Witness ==
  /\ \E i \in DOMAIN task : task[i] = "failed"
  /\ \E i \in DOMAIN task : task[i] = "ok"
  /\ \A i \in DOMAIN task : task[i] # "inflight"

\* C10: the stride is never 0, and for requiredFps >= videoFps every decoded
\* frame is retained.
C10_StrideClamped ==
  HasFrom("decoded", "none") =>
    /\ idxMultiplier >= 1
    /\ requiredFps >= videoFps => uploadTasks = frames

DecodedOk == HasFrom("decoded", "none")

\* the batch a task belongs to
BatchOf(i) == CHOOSE g \in DOMAIN batches : i \in SeqToSet(batches[g])

\* C11: for a stride s >= 1, s being the integer nearest to videoFps /
\* requiredFps (halves upwards), the frames handed to the upload stage are
\* exactly the decoded positions i with i mod s = 0, each once and in order.
NearestStride ==
  CHOOSE s \in 0..(2 * MaxFps) :
    2 * s * requiredFps - requiredFps <= 2 * videoFps
      /\ 2 * videoFps < 2 * s * requiredFps + requiredFps
C11_RetainedMultiplesOfStride ==
  (DecodedOk /\ NearestStride >= 1) =>
    /\ SeqToSet(uploadTasks) = {i \in 0..(Len(frames) - 1) : i % NearestStride = 0}
    /\ DOMAIN task = SeqToSet(uploadTasks)
    /\ \A k \in 1..(Len(uploadTasks) - 1) : uploadTasks[k] < uploadTasks[k + 1]

\* three frames decoded at videoFps 3 and requiredFps 2: stride 2 keeps 0 and 2
C11_Witness ==
  DecodedOk /\ videoFps = 3 /\ requiredFps = 2 /\ Len(frames) = 3 /\ uploadTasks = <<0, 2>>

\* C12: the N upload tasks are split into consecutive groups of at most B
\* tasks, ceil(N/B) groups (1 when N = 0), none of them empty when N > 0.
CeilDiv(n, b) == (n + b - 1) \div b
C12_GroupCount ==
  DecodedOk =>
    /\ Flatten(batches) = uploadTasks
    /\ \A g \in DOMAIN batches : Len(batches[g]) <= batchSize
    /\ Len(batches) = (IF Len(uploadTasks) = 0 THEN 1 ELSE CeilDiv(Len(uploadTasks), batchSize))
    /\ Len(uploadTasks) > 0 => \A g \in DOMAIN batches : batches[g] # <<>>

\* C13: a task of a group is only started when every task of every earlier
\* group has completed.
C13_GroupsSerial ==
  \A i \in DOMAIN task, j \in DOMAIN task :
    (BatchOf(i) < BatchOf(j) /\ task[j] # "pending") => task[i] = "ok"

\* the second group is in flight after a first group of two tasks
C13_Witness ==
  /\ batchIdx = 2 /\ Len(batches[1]) = 2
  /\ \E i \in DOMAIN task : BatchOf(i) = 2 /\ task[i] = "inflight"

\* C14: the first failure of a task is propagated at once, as one 'error'
\* event and one call of the callback; once a task has failed no further
\* error is propagated and no task still pending is ever started.
SomeFailed == \E i \in DOMAIN task : task[i] = "failed"
UploadErrors == {k \in DOMAIN trace : trace[k].ev \in {"error", "callback"} /\ trace[k].src = "upload"}
C14_OneErrorNoLaterGroup ==
  [][/\ (~SomeFailed /\ SomeFailed') =>
          \E i \in DOMAIN task :
            /\ task'[i] = "failed"
            /\ trace' = trace \o <<Ev("error", UploadErr(i)), Ev("callback", UploadErr(i))>>
     /\ SomeFailed =>
          /\ Len(trace') >= Len(trace)
          /\ \A k \in (Len(trace) + 1)..Len(trace') : trace'[k].ev \notin {"error", "callback", "upload"}
          /\ \A i \in DOMAIN task : task[i] = "pending" => task'[i] = "pending"]_vars

\* both tasks of the first group have failed and the second group is pending
C14_Witness ==
  /\ Cardinality({i \in DOMAIN task : task[i] = "failed"}) = 2
  /\ \E i \in DOMAIN task : task[i] = "pending"
  /\ Cardinality(UploadErrors) = 2

Count(ev, i) == Cardinality({k \in DOMAIN trace : trace[k].ev = ev /\ trace[k].idx = i})
InFlight == {i \in DOMAIN task : task[i] = "inflight"}

\* C15: the FrameMap delivered with 'end' and to the callback has one entry
\* per retained frame, under the frame's decoded index, holding the URI of the
\* object that frame's own upload stored, whatever the order of completion.
C15_FrameMapPerRetainedFrame ==
  Has("end") =>
    /\ HasFrom("callback", "none")
    /\ DOMAIN res = SeqToSet(uploadTasks)
    /\ \A i \in DOMAIN res :
         \E key \in DOMAIN s3objects :
           /\ s3objects[key] = FrameFile(i)
           /\ res[i] = <<"https://", "bucket", ".s3.amazonaws.com/">> \o key

\* frames 0 and 2 were retained and uploaded, and the run has ended
C15_Witness == Has("end") /\ uploadTasks = <<0, 2>> /\ DOMAIN res = {0, 2}

\* C16: at most batchSize uploads are in flight, also after a task of the
\* running group has failed.
C16_InFlightBounded == Cardinality(InFlight) <= batchSize

\* a task of the running group has failed while another one is in flight
C16_Witness == parallelErr /\ InFlight # {}

\* C17: with no frame to upload after decoding, the operation succeeds: no
\* upload is started, 'end' is emitted with an empty FrameMap, the callback
\* gets it and no error.
C17_NoFramesSucceeds ==
  (DecodedOk /\ uploadTasks = <<>>) =>
    /\ Has("end")
    /\ DOMAIN res = {}
    /\ HasFrom("callback", "none")
    /\ ~Has("upload")
    /\ ~Has("error")
    /\ \A k \in DOMAIN trace : trace[k].ev = "callback" => trace[k].src = "none"

\* the decoder wrote no frame and the run has ended
C17_Witness == DecodedOk /\ frames = <<>> /\ Has("end")

\* C18: one 'frame' event for each upload that has succeeded and none for
\* any other, in every state (so it is emitted as the upload completes, in
\* any order within a group); 'end' is emitted once at most, after every
\* 'frame' event.
C18_FrameEvents ==
  /\ \A i \in DOMAIN task : Count("frame", i) = (IF task[i] = "ok" THEN 1 ELSE 0)
  /\ \A k \in DOMAIN trace : trace[k].ev = "frame" => trace[k].idx \in DOMAIN task
  /\ Cardinality({k \in DOMAIN trace : trace[k].ev = "end"}) <= 1
  /\ \A k \in DOMAIN trace, l \in DOMAIN trace :
       (trace[k].ev = "end" /\ trace[l].ev = "frame") => l < k

\* a run has ended whose frame events are not in the order of the frames
C18_Witness ==
  /\ Has("end")
  /\ \E k \in DOMAIN trace, l \in DOMAIN trace :
       k < l /\ trace[k].ev = "frame" /\ trace[l].ev = "frame" /\ trace[k].idx > trace[l].idx

\* C19: the keys a run writes are determined by the job (videoId, segment
\* URI, decoded frames, fps values): every key written is one of the job's
\* keys and a run that ends has written all of them, so that two attempts of
\* the same job write the same objects.
JobKeys ==
  {<<videoId, videoUri.base, i, ".jpg">> :
     i \in {j \in 0..(Len(frames) - 1) : NearestStride # 0 /\ j % NearestStride = 0}}
C19_KeysDeterminedByJob ==
  /\ DOMAIN s3objects \subseteq JobKeys
  /\ Has("end") => DOMAIN s3objects = JobKeys

\* a run that has written two objects has ended
C19_Witness == Has("end") /\ Cardinality(DOMAIN s3objects) >= 2

\* C20: no key written by the run is a key of a different segment job
\* (another videoId, or the same videoId and another segment URI).
C20_KeysDisjointAcrossSegments ==
  \A vid \in VideoIds, uri \in Uris :
    (vid # videoId \/ uri # videoUri) =>
      \A i \in 0..(MaxFrames - 1) :
        Key(S3Dir(vid, uri), S3FileName(FrameFile(i))) \notin DOMAIN s3objects

CountEv(evs) == Cardinality({k \in DOMAIN trace : trace[k].ev \in evs})

\* C21: an invocation delivers exactly one terminal outcome: the callback is
\* invoked at most once and 'end' and 'error' are emitted at most once
\* together, and a settled invocation has had exactly one of each.
C21_OneTerminalOutcome ==
  /\ CountEv({"callback"}) <= 1
  /\ CountEv({"end", "error"}) <= 1
  /\ Settled => CountEv({"end", "error"}) = 1

\* C22: no 'frame' event follows the 'error' event of the invocation.
C22_NoFrameAfterError ==
  \A k \in DOMAIN trace, l \in DOMAIN trace :
    (trace[k].ev = "error" /\ k < l) => trace[l].ev # "frame"

\* C23: in lib/sequencer.js a download rejected by the response validation
\* ends the invocation: the finish of the file stream does not invoke the
\* download callback again, and no temp directory, decode, upload, 'frame' or
\* 'end' follows.
C23_RejectedDownloadEndsLib ==
  ResponseRejected =>
    /\ pc = "done"
    /\ ~HasFrom("callback", "close")
    /\ localFrames = "none"
    /\ ~Has("decoded") /\ ~Has("upload") /\ ~Has("frame") /\ ~Has("end")

\* C24: at most one renewal timer is pending for the message at any time,
\* each firing of touch() leaves at most one, and once none is pending after
\* the receipt (a firing saw that the message had responded) none is pending
\* ever again.
C24_OnePendingTimer ==
  [][/\ Len(timers) <= 1
     /\ Len(timers') <= 1
     /\ (received /\ timers = <<>>) => timers' = <<>>]_vars

\* the message was renewed twice, it responded, and the firing after that
\* left no timer
C24_Witness == received /\ hasResponded /\ touches >= 2 /\ timers = <<>>

\* C25: when every external step eventually calls back, every invocation of
\* downloadAndExtractToS3 eventually invokes its callback.
C25_EventuallySettles == received ~> Settled

\* a run with as many upload tasks as one batch holds, followed by a batch
\* without tasks, has ended
C25_Witness ==
  /\ Has("end")
  /\ Len(uploadTasks) = batchSize
  /\ Len(batches) = 2
  /\ batches[2] = <<>>
====
